---- MODULE Spec2Model ----
(***************************************************************************)
(* Model of package awsutil (src/awsutil/util.go): the TTL cache wrapper   *)
(* APICache (Get/Set over a ccache.Cache) and the session factory          *)
(* NewSession with the Send hook it pushes onto the session's handlers.    *)
(*                                                                         *)
(* Time is the wall clock read by time.Now(), in ticks; it never goes      *)
(* backwards.  The ccache store is modelled by what the calls made in      *)
(* util.go do to it: Set stores an item with the absolute expiry           *)
(* now + duration, Get returns the stored item whether or not it expired,  *)
(* Item.Expired() is "expires < now".  The store's capacity (5000 items by *)
(* default) is far above the number of keys used here, so its size-based   *)
(* pruning never runs.                                                     *)
(*                                                                         *)
(* A Get or a Set is one step where the calls are looked at one after the  *)
(* other (CacheSpec).  Where goroutines call Set at the same time          *)
(* (ConcurrentSpec) a Set is three steps, its call, the write ccache makes *)
(* under the lock of the key's bucket, and its return.  A counter's Add is *)
(* one atomic step, as prometheus makes it.                                *)
(***************************************************************************)
EXTENDS Integers, Sequences, FiniteSets, TLC

\* ---------------------------------------------------------------- bounds
MaxTime == 3        \* the clock runs 0..MaxTime
MaxTTL == 2         \* durations passed to Set range over MinTTL..MaxTTL

MaxSessions == 2    \* at most MaxSessions calls of NewSession
MaxRequests == 2    \* at most MaxRequests requests are made through the sessions
MaxSends == 3       \* at most MaxSends send attempts are made, retries included

MinTTL == 0 - 1
Keys == {"a", "b"}
Values == {42, 7}
Durations == MinTTL..MaxTTL
CacheNames == {"ELBV2"}
CacheActions == {"hit", "miss", "set"}
\* the *aws.Config values handed to NewSession: session.NewSession accepts one
\* and fails on the other
Configs == {"valid", "invalid"}
\* r.ClientInfo.ServiceName and r.Operation.Name of the requests made
Services == {"ec2", "elasticloadbalancing"}
Operations == {"DescribeTags", "DescribeSubnets"}
Apis == {<<"ec2", "DescribeSubnets">>, <<"elasticloadbalancing", "DescribeTags">>}
\* the label pairs of AWSErrorCount that occur
ErrLabels == {<<"AWS", "NewSession">>, <<"ELBV2", "DescribeTags">>}
\* what a physical send is answered with
Responses == {"ok", "error"}
\* the goroutines that call Set concurrently
Procs == {"g1", "g2"}
\* the package-level variables that hold a session or a service built on one
PackageVars == {"Session", "Route53svc", "ALBsvc", "Ec2svc", "ACMsvc", "IAMsvc"}
\* the handlers of a Send list
Hook == "awsutil.NewSession.func1"
CoreSend == "core.SendHandler"

\* the nil *ccache.Item
Nil == [nil |-> TRUE]
\* "no Set has been performed on this key"
NoSet == [none |-> TRUE]
\* no cache call has returned at the current instant
NoCall == [op |-> "none", key |-> "", item |-> Nil, repeat |-> FALSE]
\* the nil *ccache.Cache held by an APICache whose cache field was never set
NilCache == [nilcache |-> TRUE]
\* the nil *session.Session
NilSession == 0

VARIABLES
    now,        \* time.Now()
    store,      \* APICache.cache: key -> item or Nil, or NilCache
    AWSCache,   \* the albingress_cache counter vector: <<cache, action>> -> count
    ret,        \* the last cache call made at the current instant: for a Get the
                \* item it returned, for a Set the item it replaced in the store;
                \* op is "panic" when the call did not return but panicked
    lastSet,    \* history: per key, the arguments and the time of the last Set
    procs,      \* per goroutine, the Set call it is in and how far that call is
    hist,       \* history: per key, how the concurrent Set calls on it were ordered
    sessions,   \* the sessions NewSession has returned, each with its Handlers.Send
    configs,    \* history: how many times NewSession was called with each config
    sessionRet, \* the last NewSession call: the config it was given and what it
                \* returned, NilSession or an index into sessions
    AWSErrorCount,  \* albingress_aws_errors: <<service, request>> -> count
    AWSRequest,     \* albingress_aws_requests: <<service, operation>> -> count
    AWSDebug,   \* the package-level debug flag
    logInfo,    \* number of lines written by log.Infof
    logError,   \* number of lines written by log.Errorf
    reqs,       \* the requests made through the sessions
    pkg         \* the package-level variables Session, Route53svc, ALBsvc,
                \* Ec2svc, ACMsvc and IAMsvc: NilSession, or the index of the
                \* session they hold or were built on

cacheVars == <<now, store, AWSCache, ret, lastSet, procs, hist>>
sessionVars == <<sessions, configs, sessionRet, AWSErrorCount, AWSRequest,
                 AWSDebug, logInfo, logError, reqs, pkg>>
vars == <<now, store, AWSCache, ret, lastSet, procs, hist, sessions, configs, sessionRet,
          AWSErrorCount, AWSRequest, AWSDebug, logInfo, logError, reqs, pkg>>

\* ------------------------------------------------------------ the store
\* ccache newItem(key, value, expires)
newItem(value, expires) == [value |-> value, expires |-> expires]

\* (variant: the lookup ignores the key and returns whatever item is stored)
cacheGetAnyKey(c, key) ==
    IF \E k \in DOMAIN c : c[k] # Nil
    THEN c[CHOOSE k \in DOMAIN c : c[k] # Nil]
    ELSE Nil

\* ac.cache.Get(key): the bucket lookup; an expired item is returned as is
cacheGet(c, key) == c[key]

\* (variant: an item counts as expired from its deadline on)
ExpiredAtDeadline(i) == i.expires <= now

\* i.Expired(): expires < time.Now()
Expired(i) == i.expires < now

\* (variant: the duration is stored as if it were the deadline)
cacheSetRelative(c, key, value, duration) ==
    [c EXCEPT ![key] = newItem(value, duration)]

\* (variant: the table is rebuilt and the other keys are dropped)
cacheSetClobber(c, key, value, duration) ==
    [k \in Keys |-> IF k = key THEN newItem(value, now + duration) ELSE Nil]

\* (variant: an entry already stored for the key is kept)
cacheSetIfAbsent(c, key, value, duration) ==
    IF c[key] # Nil THEN c
    ELSE [c EXCEPT ![key] = newItem(value, now + duration)]

\* ac.cache.Set(key, value, duration): expires = time.Now().Add(duration)
cacheSet(c, key, value, duration) ==
    [c EXCEPT ![key] = newItem(value, now + duration)]

\* ------------------------------------------------------------- APICache
\* (variant: Get without the i.Expired() test)
APICacheGetNoExpiry(key) == cacheGet(store, key)

\* the value APICache.Get(key) returns in the current state
APICacheGet(key) ==
    LET i == cacheGet(store, key)
    IN  IF i = Nil \/ Expired(i) THEN Nil ELSE i

\* (variant: Get records a hit or a miss in AWSCache)
GetCounting(key) ==
    /\ ret' = [op |-> "Get", key |-> key, item |-> APICacheGet(key),
               repeat |-> (ret.op = "Get" /\ ret.key = key)]
    /\ AWSCache' = [AWSCache EXCEPT
           ![<<"ELBV2", IF APICacheGet(key) # Nil THEN "hit" ELSE "miss">>] = @ + 1]
    /\ UNCHANGED <<now, store, lastSet, procs, hist, sessionVars>>

\* a method call on the nil *ccache.Cache dereferences it: the goroutine panics
NilDereference(key) == [op |-> "panic", key |-> key, item |-> Nil, repeat |-> FALSE]

\* (variant: a Get that finds an expired item deletes it)
GetEvicting(key) ==
    /\ ret' = [op |-> "Get", key |-> key, item |-> APICacheGet(key),
               repeat |-> (ret.op = "Get" /\ ret.key = key)]
    /\ store' = IF cacheGet(store, key) # Nil /\ Expired(cacheGet(store, key))
                THEN [store EXCEPT ![key] = Nil]
                ELSE store
    /\ UNCHANGED <<now, AWSCache, lastSet, procs, hist, sessionVars>>

\* func (ac APICache) Get(key string) *ccache.Item
Get(key) ==
    /\ ret' = IF store = NilCache THEN NilDereference(key)
              ELSE [op |-> "Get", key |-> key, item |-> APICacheGet(key),
                    repeat |-> (ret.op = "Get" /\ ret.key = key)]
    /\ UNCHANGED <<now, store, AWSCache, lastSet, procs, hist, sessionVars>>

\* (variant: a Set with a duration that is not positive stores nothing)
SetPositiveOnly(key, value, duration) ==
    /\ store' = IF duration <= 0 THEN store
                ELSE cacheSet(store, key, value, duration)
    /\ ret' = [op |-> "Set", key |-> key, item |-> store[key],
               repeat |-> (ret.op = "Set" /\ ret.key = key)]
    /\ lastSet' = [lastSet EXCEPT ![key] =
                      [value |-> value, ttl |-> duration, at |-> now]]
    /\ UNCHANGED <<now, AWSCache, procs, hist, sessionVars>>

\* func (ac APICache) Set(key string, value interface{}, duration time.Duration)
Set(key, value, duration) ==
    /\ IF store = NilCache
       THEN /\ ret' = NilDereference(key)
            /\ UNCHANGED <<store, lastSet>>
       ELSE /\ store' = cacheSet(store, key, value, duration)
            /\ ret' = [op |-> "Set", key |-> key, item |-> store[key],
                       repeat |-> (ret.op = "Set" /\ ret.key = key)]
            /\ lastSet' = [lastSet EXCEPT ![key] =
                              [value |-> value, ttl |-> duration, at |-> now]]
    /\ UNCHANGED <<now, AWSCache, procs, hist, sessionVars>>

\* ------------------------------------------- Set called concurrently
\* a goroutine that is in no Set call
Idle == [pc |-> "idle", key |-> "", value |-> 0, duration |-> 0]
\* no Set call has been made on the key:
\*   last     the value of the Set that returned last (0: none has returned)
\*   won, by  the value and the goroutine of the Set that wrote the store last
\*   wonDone  that Set has returned
\*   later    a Set on the key was called after that Set had returned
\*   overlap  two Set calls on the key have been in progress at the same time
\*   raced    the last Set called on the key was in progress together with a
\*            Set on another key
NoHistory == [last |-> 0, won |-> 0, by |-> "", wonDone |-> FALSE,
              later |-> FALSE, overlap |-> FALSE, raced |-> FALSE]
\* the keys other goroutines than p have a Set in progress on
BusyKeys(p) == {procs[q].key : q \in {r \in Procs \ {p} : procs[r].pc # "idle"}}
\* no Set on key k is in progress
Quiet(k) == \A p \in Procs : procs[p].pc = "idle" \/ procs[p].key # k

\* goroutine p calls ac.Set(key, value, duration)
SetCall(p, key, value, duration) ==
    /\ procs[p].pc = "idle"
    /\ procs' = [procs EXCEPT ![p] = [pc |-> "write", key |-> key,
                                      value |-> value, duration |-> duration]]
    /\ hist' = [k \in Keys |->
                  IF k = key
                  THEN [hist[k] EXCEPT
                           !.later = @ \/ hist[k].wonDone,
                           !.overlap = @ \/ key \in BusyKeys(p),
                           !.raced = (BusyKeys(p) \ {key} # {})]
                  ELSE [hist[k] EXCEPT
                           !.raced = @ \/ k \in BusyKeys(p)]]
    /\ UNCHANGED <<now, store, AWSCache, ret, lastSet, sessionVars>>

\* (variant: the write is given up when another Set on the key is in progress)
SetWriteTryLock(p) ==
    /\ procs[p].pc = "write"
    /\ store' = IF procs[p].key \in BusyKeys(p) THEN store
                ELSE cacheSet(store, procs[p].key, procs[p].value, procs[p].duration)
    /\ procs' = [procs EXCEPT ![p].pc = "return"]
    /\ hist' = [hist EXCEPT ![procs[p].key] =
                    [@ EXCEPT !.won = procs[p].value, !.by = p,
                              !.wonDone = FALSE, !.later = FALSE]]
    /\ UNCHANGED <<now, AWSCache, ret, lastSet, sessionVars>>

\* goroutine p is in ac.cache.Set: under the bucket's lock the item of the key
\* is replaced
SetWrite(p) ==
    /\ procs[p].pc = "write"
    /\ store' = cacheSet(store, procs[p].key, procs[p].value, procs[p].duration)
    /\ procs' = [procs EXCEPT ![p].pc = "return"]
    /\ hist' = [hist EXCEPT ![procs[p].key] =
                    [@ EXCEPT !.won = procs[p].value, !.by = p,
                              !.wonDone = FALSE, !.later = FALSE]]
    /\ UNCHANGED <<now, AWSCache, ret, lastSet, sessionVars>>

\* goroutine p returns from ac.Set
SetReturn(p) ==
    /\ procs[p].pc = "return"
    /\ procs' = [procs EXCEPT ![p] = Idle]
    /\ hist' = [hist EXCEPT ![procs[p].key] =
                    [@ EXCEPT !.last = procs[p].value,
                              !.wonDone = @ \/ hist[procs[p].key].by = p]]
    /\ UNCHANGED <<now, store, AWSCache, ret, lastSet, sessionVars>>

\* the wall clock advances
Tick ==
    /\ now < MaxTime
    /\ now' = now + 1
    /\ ret' = NoCall
    /\ UNCHANGED <<store, AWSCache, lastSet, procs, hist, sessionVars>>

\* -------------------------------------------------- the session factory
\* session.NewSession(awsconfig): an error, or a session whose Send list holds
\* the SDK's send handler
sessionNewSession(cfg) ==
    IF cfg = "invalid"
    THEN [err |-> TRUE, handlers |-> <<>>]
    ELSE [err |-> FALSE, handlers |-> <<CoreSend>>]

\* (variant: the handler is added at the back of the list)
PushBack(list, h) == list \o <<h>>

\* HandlerList.PushFront
PushFront(list, h) == <<h>> \o list

\* (variant: the failure is logged and nil returned, but not counted)
NewSessionFailedUncounted(cfg) ==
    /\ logError' = logError + 1
    /\ sessionRet' = [config |-> cfg, session |-> NilSession]
    /\ UNCHANGED <<AWSErrorCount, sessions, pkg>>

\* what NewSession does when session.NewSession fails
NewSessionFailed(cfg) ==
    /\ AWSErrorCount' = [AWSErrorCount EXCEPT ![<<"AWS", "NewSession">>] = @ + 1]
    /\ logError' = logError + 1
    /\ sessionRet' = [config |-> cfg, session |-> NilSession]
    /\ UNCHANGED <<sessions, pkg>>

\* (variant: the sessions share one Send list, so that the hook pushed for a
\* new session is pushed for the earlier ones too)
NewSessionReadyShared(cfg, handlers) ==
    /\ LET shared == PushFront(IF sessions = <<>> THEN handlers
                               ELSE sessions[1].handlers, Hook)
       IN  sessions' = [s \in 1..Len(sessions) + 1 |-> [handlers |-> shared]]
    /\ sessionRet' = [config |-> cfg, session |-> Len(sessions) + 1]
    /\ UNCHANGED <<AWSErrorCount, logError, pkg>>

\* (variant: the factory keeps the session it returns in Session)
NewSessionReadyKept(cfg, handlers) ==
    /\ sessions' = Append(sessions, [handlers |-> PushFront(handlers, Hook)])
    /\ sessionRet' = [config |-> cfg, session |-> Len(sessions) + 1]
    /\ pkg' = [pkg EXCEPT !["Session"] = Len(sessions) + 1]
    /\ UNCHANGED <<AWSErrorCount, logError>>

\* what NewSession does with the session session.NewSession returned
NewSessionReady(cfg, handlers) ==
    /\ sessions' = Append(sessions, [handlers |-> PushFront(handlers, Hook)])
    /\ sessionRet' = [config |-> cfg, session |-> Len(sessions) + 1]
    /\ UNCHANGED <<AWSErrorCount, logError, pkg>>

\* (variant: when the construction fails the factory tries again with the
\* default configuration)
NewSessionRetrying(cfg) ==
    /\ configs["valid"] + configs["invalid"] < MaxSessions
    /\ configs' = [configs EXCEPT ![cfg] = @ + 1]
    /\ LET r == sessionNewSession(cfg)
       IN  IF r.err
           THEN NewSessionReady(cfg, sessionNewSession("valid").handlers)
           ELSE NewSessionReady(cfg, r.handlers)
    /\ UNCHANGED <<AWSRequest, AWSDebug, logInfo, reqs, cacheVars>>

\* func NewSession(awsconfig *aws.Config) *session.Session
NewSession(cfg) ==
    /\ configs["valid"] + configs["invalid"] < MaxSessions
    /\ configs' = [configs EXCEPT ![cfg] = @ + 1]
    /\ LET r == sessionNewSession(cfg)
       IN  IF r.err THEN NewSessionFailed(cfg)
           ELSE NewSessionReady(cfg, r.handlers)
    /\ UNCHANGED <<AWSRequest, AWSDebug, logInfo, reqs, cacheVars>>

\* the collaborator keeps the session it was returned in Session and builds
\* the service handles on it
AssignPackageVars ==
    /\ sessionRet.session # NilSession /\ pkg["Session"] # sessionRet.session
    /\ pkg' = [v \in PackageVars |-> sessionRet.session]
    /\ UNCHANGED <<sessions, configs, sessionRet, AWSErrorCount, AWSRequest,
                   AWSDebug, logInfo, logError, reqs, cacheVars>>

\* the collaborator sets the package-level flag AWSDebug
SetAWSDebug(b) ==
    /\ AWSDebug # b
    /\ AWSDebug' = b
    /\ UNCHANGED <<pkg, sessions, configs, sessionRet, AWSErrorCount, AWSRequest,
                   logInfo, logError, reqs, cacheVars>>

RECURSIVE Attempts(_)
\* the number of send attempts started by the requests i..Len(reqs)
Attempts(i) == IF i > Len(reqs) THEN 0 ELSE reqs[i].attempt + Attempts(i + 1)

\* a request is made through session s: it carries a copy of the session's
\* Send list and its first attempt starts at the head of that list
NewRequest(s, api) ==
    /\ Len(reqs) < MaxRequests /\ Attempts(1) < MaxSends
    /\ reqs' = Append(reqs, [service |-> api[1], operation |-> api[2],
                             handlers |-> sessions[s].handlers,
                             attempt |-> 1, next |-> 1, hooks |-> 0,
                             sends |-> 0, response |-> "none"])
    /\ UNCHANGED <<pkg, sessions, configs, sessionRet, AWSErrorCount, AWSRequest,
                   AWSDebug, logInfo, logError, cacheVars>>

\* (variant: the count is read and written back in two steps, so that the
\* hook stores what it has counted for its own request)
SendHookUnsynchronized(r) ==
    /\ AWSRequest' = [AWSRequest EXCEPT ![<<r.service, r.operation>>] = r.hooks + 1]
    /\ logInfo' = IF AWSDebug THEN logInfo + 1 ELSE logInfo

\* (variant: the trace line is written whatever AWSDebug is)
SendHookAlwaysLogs(r) ==
    /\ AWSRequest' = [AWSRequest EXCEPT ![<<r.service, r.operation>>] = @ + 1]
    /\ logInfo' = logInfo + 1

\* the body of the func(r *request.Request) pushed by NewSession
SendHook(r) ==
    /\ AWSRequest' = [AWSRequest EXCEPT ![<<r.service, r.operation>>] = @ + 1]
    /\ logInfo' = IF AWSDebug THEN logInfo + 1 ELSE logInfo

\* the handler a request runs next in its current attempt, "" when the Send
\* list has been run to its end
NextHandler(r) ==
    IF r.next <= Len(r.handlers) THEN r.handlers[r.next] ELSE ""

\* (variant: the hook fails the request, so that the rest of the list is
\* skipped and nothing is sent)
RunHookAborts(i) ==
    /\ NextHandler(reqs[i]) = Hook
    /\ SendHook(reqs[i])
    /\ reqs' = [reqs EXCEPT ![i].next = Len(reqs[i].handlers) + 1,
                            ![i].hooks = @ + 1, ![i].response = "error"]
    /\ UNCHANGED <<pkg, sessions, configs, sessionRet, AWSErrorCount, AWSDebug,
                   logError, cacheVars>>

\* Handlers.Send.Run reaches the hook pushed by NewSession
RunHook(i) ==
    /\ NextHandler(reqs[i]) = Hook
    /\ SendHook(reqs[i])
    /\ reqs' = [reqs EXCEPT ![i].next = @ + 1, ![i].hooks = @ + 1]
    /\ UNCHANGED <<pkg, sessions, configs, sessionRet, AWSErrorCount, AWSDebug,
                   logError, cacheVars>>

\* Handlers.Send.Run reaches the SDK's send handler: the request goes out and
\* its response is read
RunCoreSend(i, resp) ==
    /\ NextHandler(reqs[i]) = CoreSend
    /\ reqs' = [reqs EXCEPT ![i].next = @ + 1, ![i].sends = @ + 1,
                            ![i].response = resp]
    /\ UNCHANGED <<pkg, sessions, configs, sessionRet, AWSErrorCount, AWSRequest,
                   AWSDebug, logInfo, logError, cacheVars>>

\* the Send list has been run and the attempt failed: the SDK sends again
Retry(i) ==
    /\ reqs[i].next > Len(reqs[i].handlers)
    /\ reqs[i].response = "error" /\ Attempts(1) < MaxSends
    /\ reqs' = [reqs EXCEPT ![i].attempt = @ + 1, ![i].next = 1,
                            ![i].response = "none"]
    /\ UNCHANGED <<pkg, sessions, configs, sessionRet, AWSErrorCount, AWSRequest,
                   AWSDebug, logInfo, logError, cacheVars>>

Init ==
    /\ now = 0
    /\ store = [k \in Keys |-> Nil]
    /\ AWSCache = [l \in CacheNames \X CacheActions |-> 0]
    /\ ret = NoCall
    /\ lastSet = [k \in Keys |-> NoSet]
    /\ procs = [p \in Procs |-> Idle]
    /\ hist = [k \in Keys |-> NoHistory]
    /\ sessions = <<>>
    /\ configs = [cfg \in Configs |-> 0]
    /\ sessionRet = [config |-> "none", session |-> NilSession]
    /\ AWSErrorCount = [l \in ErrLabels |-> 0]
    /\ AWSRequest = [l \in Services \X Operations |-> 0]
    /\ AWSDebug = FALSE
    /\ logInfo = 0
    /\ logError = 0
    /\ reqs = <<>>
    /\ pkg = [v \in PackageVars |-> NilSession]

\* as Init, but the APICache may also be the zero value APICache{}, whose
\* cache field is nil
InitAnyCache ==
    /\ now = 0
    /\ store \in {NilCache, [k \in Keys |-> Nil]}
    /\ AWSCache = [l \in CacheNames \X CacheActions |-> 0]
    /\ ret = NoCall
    /\ lastSet = [k \in Keys |-> NoSet]
    /\ procs = [p \in Procs |-> Idle]
    /\ hist = [k \in Keys |-> NoHistory]
    /\ sessions = <<>>
    /\ configs = [cfg \in Configs |-> 0]
    /\ sessionRet = [config |-> "none", session |-> NilSession]
    /\ AWSErrorCount = [l \in ErrLabels |-> 0]
    /\ AWSRequest = [l \in Services \X Operations |-> 0]
    /\ AWSDebug = FALSE
    /\ logInfo = 0
    /\ logError = 0
    /\ reqs = <<>>
    /\ pkg = [v \in PackageVars |-> NilSession]

CacheNext ==
    \/ Tick
    \/ \E k \in Keys : Get(k)
    \/ \E k \in Keys, v \in Values, d \in Durations : Set(k, v, d)

\* Set called by several goroutines at once, with Gets in between; the
\* durations are positive and the clock stands still, so that nothing expires
ConcurrentNext ==
    \/ \E p \in Procs, k \in Keys, v \in Values : SetCall(p, k, v, MaxTTL)
    \/ \E p \in Procs : SetWrite(p)
    \/ \E p \in Procs : SetReturn(p)
    \/ \E k \in Keys : Get(k)

SessionNext ==
    \/ \E cfg \in Configs : NewSession(cfg)
    \/ \E b \in BOOLEAN : SetAWSDebug(b)
    \/ \E s \in 1..Len(sessions), api \in Apis : NewRequest(s, api)
    \/ \E i \in 1..Len(reqs) : RunHook(i)
    \/ \E i \in 1..Len(reqs), resp \in Responses : RunCoreSend(i, resp)
    \/ \E i \in 1..Len(reqs) : Retry(i)

\* the cache under arbitrary Get, Set and clock steps
CacheSpec == Init /\ [][CacheNext]_vars

\* the cache of any APICache value, the zero value included
AnyCacheSpec == InitAnyCache /\ [][CacheNext]_vars

\* the session factory, the package-level variables its caller assigns and
\* the requests made through its sessions, each sent once
PackageNext ==
    \/ \E cfg \in Configs : NewSession(cfg)
    \/ AssignPackageVars
    \/ \E s \in 1..Len(sessions), api \in Apis : NewRequest(s, api)
    \/ \E i \in 1..Len(reqs) : RunHook(i)
    \/ \E i \in 1..Len(reqs) : RunCoreSend(i, "ok")

PackageSpec == Init /\ [][PackageNext]_vars

\* the cache under concurrent Set calls
ConcurrentSpec == Init /\ [][ConcurrentNext]_vars

\* the session factory and the requests made through its sessions
SessionSpec == Init /\ [][SessionNext]_vars

\* ===================================================== the cache claims
\* the deadline of the entry last set for k: time of the Set + ttl
ExpiresAt(k) == lastSet[k].at + lastSet[k].ttl
WasSet(k) == lastSet[k] # NoSet
\* a Get(k) has just returned
JustGot(k) == ret.op = "Get" /\ ret.key = k
\* a Set(k, ...) has just returned
JustSet(k) == ret.op = "Set" /\ ret.key = k

C2_GetAfterSet ==
    \A k \in Keys :
        (WasSet(k) /\ lastSet[k].ttl > 0 /\ lastSet[k].at = now) =>
            /\ APICacheGet(k) # Nil
            /\ APICacheGet(k).value = lastSet[k].value
            /\ JustGot(k) => (ret.item # Nil /\ ret.item.value = lastSet[k].value)

\* a Get returned v right after a Set of v that followed earlier operations
C2_Witness ==
    /\ ret.op = "Get" /\ ret.item # Nil
    /\ WasSet(ret.key) /\ lastSet[ret.key].ttl > 0 /\ lastSet[ret.key].at = now
    /\ ret.item.value = lastSet[ret.key].value
    /\ now > 0
    /\ \E k \in Keys \ {ret.key} : WasSet(k)

C4_NeverSetAbsent ==
    \A k \in Keys :
        ~WasSet(k) =>
            /\ APICacheGet(k) = Nil
            /\ JustGot(k) => ret.item = Nil

\* a Get of a key never set returned nil while another key is visible
C4_Witness ==
    /\ ret.op = "Get" /\ ret.item = Nil /\ ~WasSet(ret.key)
    /\ \E k \in Keys : APICacheGet(k) # Nil

\* C5: Set overwrites: the entry stored for k is the one of the last Set(k, v2, t2)
\* alone, with deadline now + t2, and right after a Set that replaced an entry
\* a Get(k) returns v2 when t2 > 0.
C5_SetOverwrites ==
    \A k \in Keys :
        /\ WasSet(k) =>
               /\ store[k] # Nil
               /\ store[k].value = lastSet[k].value
               /\ store[k].expires = ExpiresAt(k)
        /\ (JustSet(k) /\ ret.item # Nil /\ WasSet(k) /\ lastSet[k].ttl > 0) =>
               /\ lastSet[k].at = now
               /\ APICacheGet(k) # Nil
               /\ APICacheGet(k).value = lastSet[k].value

\* a Set has replaced an entry of another value and a later deadline
C5_Witness ==
    /\ ret.op = "Set" /\ ret.item # Nil /\ WasSet(ret.key)
    /\ ret.item.value # lastSet[ret.key].value
    /\ ret.item.expires > ExpiresAt(ret.key)
    /\ lastSet[ret.key].ttl > 0
    /\ APICacheGet(ret.key) # Nil
    /\ APICacheGet(ret.key).value = lastSet[ret.key].value

RECURSIVE SumOver(_, _, _)
\* the sum of field f of the requests i..Len(reqs) that carry label l
SumOver(f, l, i) ==
    IF i > Len(reqs) THEN 0
    ELSE (IF <<reqs[i].service, reqs[i].operation>> = l THEN reqs[i][f] ELSE 0)
         + SumOver(f, l, i + 1)

RECURSIVE Total(_, _)
\* the sum of the counts of a counter vector over the labels in ls
Total(counter, ls) ==
    IF ls = {} THEN 0
    ELSE LET l == CHOOSE x \in ls : TRUE
         IN  counter[l] + Total(counter, ls \ {l})

ReqLabels == Services \X Operations
\* the number of times the hook has run, over all requests
HookRuns == Total([l \in ReqLabels |-> SumOver("hooks", l, 1)], ReqLabels)

\* C7: every NewSession call whose session construction fails adds exactly 1 to
\* AWSErrorCount(service="AWS", request="NewSession") and returns nil, never a
\* session: after n failed calls the count is n, and no other label is touched.
C7_FailedNewSession ==
    /\ AWSErrorCount[<<"AWS", "NewSession">>] = configs["invalid"]
    /\ \A l \in ErrLabels \ {<<"AWS", "NewSession">>} : AWSErrorCount[l] = 0
    /\ sessionRet.config = "invalid" => sessionRet.session = NilSession
    /\ Len(sessions) = configs["valid"]
    /\ sessionRet.session # NilSession => sessionRet.session \in 1..Len(sessions)

\* two calls have failed, the second returning nil, and the count is 2
C7_Witness ==
    /\ configs["invalid"] = 2
    /\ sessionRet.config = "invalid" /\ sessionRet.session = NilSession
    /\ AWSErrorCount[<<"AWS", "NewSession">>] = 2

\* C8: the hook runs exactly once per physical send, retries included: each
\* attempt adds exactly 1 to AWSRequest at the request's (service, operation)
\* and to no other label, and it does so before the attempt is sent and its
\* response read.
C8_HookOncePerSend ==
    /\ \A l \in ReqLabels : AWSRequest[l] = SumOver("hooks", l, 1)
    /\ \A i \in 1..Len(reqs) :
          /\ reqs[i].sends <= reqs[i].hooks
          /\ reqs[i].hooks <= reqs[i].sends + 1
          /\ reqs[i].hooks <= reqs[i].attempt
          /\ reqs[i].response # "none" =>
                 /\ reqs[i].hooks = reqs[i].attempt
                 /\ reqs[i].sends = reqs[i].attempt

\* one call was sent twice and counted twice, a call of another service once
C8_Witness ==
    \E i, j \in 1..Len(reqs) :
        /\ reqs[i].service # reqs[j].service
        /\ reqs[i].attempt = 2 /\ reqs[i].sends = 2
        /\ reqs[j].sends = 1
        /\ AWSRequest[<<reqs[i].service, reqs[i].operation>>] = 2
        /\ AWSRequest[<<reqs[j].service, reqs[j].operation>>] = 1

\* C9: a run of the hook writes one trace line if AWSDebug is true and none if
\* it is false, and adds 1 to AWSRequest either way: the lines written equal the
\* sends made while the flag was true.
C9_TraceLinesFollowFlag ==
    [][ LET counted == Total(AWSRequest', ReqLabels) - Total(AWSRequest, ReqLabels)
        IN  /\ counted = HookRuns' - HookRuns
            /\ logInfo' - logInfo = IF AWSDebug THEN counted ELSE 0
      ]_vars

\* sends were made with the flag on and with the flag off
C9_Witness ==
    /\ logInfo >= 1
    /\ Total(AWSRequest, ReqLabels) > logInfo
    /\ ~AWSDebug

\* C11 as stated: Get and Set never fail observably, whatever the state of the
\* underlying store, a nil store included: no call panics.
C11_NeverFails == ret.op # "panic"

\* C12: concurrent Set calls on pairwise different keys lose no update: when no
\* two Sets on one key have overlapped, and no Set on k is in progress, Get(k)
\* returns the value of the last Set on k (nothing has expired).
C12_DisjointSetsKeepEveryUpdate ==
    (\A k \in Keys : ~hist[k].overlap) =>
        \A k \in Keys :
            (Quiet(k) /\ hist[k].last # 0) =>
                /\ APICacheGet(k) # Nil
                /\ APICacheGet(k).value = hist[k].last

\* two goroutines have set different keys to different values at the same
\* time, both have returned, and a Get reads what the last Set on its key wrote
C12_Witness ==
    /\ \A k \in Keys : /\ ~hist[k].overlap /\ hist[k].raced
                        /\ Quiet(k) /\ hist[k].last # 0
    /\ \E k1, k2 \in Keys : hist[k1].last # hist[k2].last
    /\ ret.op = "Get" /\ ret.item # Nil
    /\ ret.item.value = hist[ret.key].last

\* C13 as stated: after all concurrent Sets on k have returned, Get(k) returns
\* the value of the Set that returned last.
C13_Original ==
    \A k \in Keys :
        (Quiet(k) /\ hist[k].last # 0) =>
            /\ APICacheGet(k) # Nil
            /\ APICacheGet(k).value = hist[k].last

\* C13: after all concurrent Sets on k have returned, Get(k) returns the value
\* of the Set that wrote the store last, which may have returned before
\* another; no Set on k was called after that Set had returned.
C13_LastWriteWins ==
    \A k \in Keys :
        (Quiet(k) /\ hist[k].last # 0) =>
            /\ APICacheGet(k) # Nil
            /\ APICacheGet(k).value = hist[k].won
            /\ hist[k].wonDone
            /\ ~hist[k].later

\* two Sets on one key overlapped, the one that wrote last returned first, and
\* a Get after both reads the value of that one
C13_Witness ==
    \E k \in Keys :
        /\ Quiet(k) /\ hist[k].overlap
        /\ hist[k].last # 0 /\ hist[k].last # hist[k].won
        /\ ret.op = "Get" /\ ret.key = k /\ ret.item # Nil
        /\ ret.item.value = hist[k].won

\* C14: the hook stands at the front of every session's Send list, before the
\* handlers the session had without it; a step of the hook counts the request
\* before the send of that attempt, hands the request on unchanged to the
\* SDK's send handler, and every send comes after the hook of its attempt.
C14_HookBeforeSend ==
    [][ /\ \A s \in 1..Len(sessions') :
              /\ Head(sessions'[s].handlers) = Hook
              /\ Tail(sessions'[s].handlers) = sessionNewSession("valid").handlers
        /\ \A i \in 1..Len(reqs) :
              LET r == reqs[i]
                  q == reqs'[i]
                  l == <<r.service, r.operation>>
              IN  /\ q.hooks # r.hooks =>
                        /\ AWSRequest'[l] = AWSRequest[l] + 1
                        /\ r.sends = r.attempt - 1
                        /\ q = [r EXCEPT !.hooks = @ + 1, !.next = @ + 1]
                        /\ NextHandler(q) = CoreSend
                  /\ q.sends # r.sends =>
                        /\ r.hooks = r.attempt
                        /\ AWSRequest' = AWSRequest
      ]_vars

\* a request has been counted by the hook and its send is the next handler
C14_Witness ==
    \E i \in 1..Len(reqs) :
        /\ reqs[i].hooks = 1 /\ reqs[i].sends = 0
        /\ NextHandler(reqs[i]) = CoreSend
        /\ AWSRequest[<<reqs[i].service, reqs[i].operation>>] = 1

\* C15: a NewSession call ends either failed (nil returned, no session made, no
\* hook attached) or ready (a new session returned with the hook attached),
\* never both; a failed call makes no second attempt; no other step makes a
\* session or changes what was returned; a call that succeeds after failures
\* returns a new session like any other.
C15_SessionLifecycle ==
    [][ IF configs' = configs
        THEN sessions' = sessions /\ sessionRet' = sessionRet
        ELSE \E cfg \in Configs :
               /\ configs' = [configs EXCEPT ![cfg] = @ + 1]
               /\ sessionRet'.config = cfg
               /\ IF cfg = "invalid"
                  THEN /\ sessionRet'.session = NilSession
                       /\ sessions' = sessions
                  ELSE /\ sessionRet'.session = Len(sessions) + 1
                       /\ sessionRet'.session # NilSession
                       /\ sessions' = Append(sessions,
                                             [handlers |-> <<Hook, CoreSend>>])
      ]_vars

\* a call failed, and a later call succeeded and returned a session with the
\* hook attached
C15_Witness ==
    /\ configs["invalid"] >= 1
    /\ sessionRet.config = "valid" /\ sessionRet.session = Len(sessions)
    /\ Len(sessions) = 1
    /\ Hook \in {sessions[1].handlers[n] : n \in 1..Len(sessions[1].handlers)}

\* the requests whose current attempt has been counted and not yet sent
InFlight == {i \in 1..Len(reqs) : reqs[i].hooks > reqs[i].sends}

\* C16: however the sends of several requests interleave, every step adds to
\* each (service, operation) count exactly the number of hook runs made for
\* that label in the step, so that the counts add up to the sends made plus
\* the sends counted and still to be made; no count of AWSRequest or of
\* AWSErrorCount ever decreases.
C16_CountersSynchronized ==
    [][ /\ \A l \in ReqLabels :
              /\ AWSRequest'[l] >= AWSRequest[l]
              /\ AWSRequest'[l] - AWSRequest[l] =
                     SumOver("hooks", l, 1)' - SumOver("hooks", l, 1)
              /\ AWSRequest'[l] =
                     SumOver("sends", l, 1)'
                     + Cardinality({i \in InFlight' :
                                      <<reqs'[i].service, reqs'[i].operation>> = l})
        /\ \A l \in ErrLabels : AWSErrorCount'[l] >= AWSErrorCount[l]
      ]_vars

\* two sessions exist and two requests with the same label are both between
\* the hook and the send: both have been counted
C16_Witness ==
    /\ Len(sessions) = 2 /\ Len(reqs) = 2 /\ InFlight = {1, 2}
    /\ <<reqs[1].service, reqs[1].operation>> = <<reqs[2].service, reqs[2].operation>>
    /\ AWSRequest[<<reqs[1].service, reqs[1].operation>>] = 2

\* C17: a NewSession call leaves AWSRequest unchanged, whether it succeeds or
\* fails, a successful one also leaves AWSErrorCount unchanged, and neither
\* assigns Session or a service handle.
C17_NewSessionFrame ==
    [][ configs' # configs =>
          /\ AWSRequest' = AWSRequest
          /\ pkg' = pkg
          /\ configs'["valid"] # configs["valid"] => AWSErrorCount' = AWSErrorCount
      ]_vars

\* the caller kept the first session in Session and sent a request through
\* it; a second NewSession call has returned a second session, and Session
\* and the request count are as they were
C17_Witness ==
    /\ sessionRet.config = "valid" /\ sessionRet.session = 2
    /\ \A v \in PackageVars : pkg[v] = 1
    /\ Total(AWSRequest, ReqLabels) = 1
    /\ \E i \in 1..Len(reqs) : reqs[i].sends = 1

HooksIn(list) == Cardinality({n \in 1..Len(list) : list[n] = Hook})

\* C19: whatever number of sessions NewSession has returned, the Send list of
\* each of them, and of each request made through them, holds the hook exactly
\* once at all times, so that an attempt is counted once, never once per
\* session.
C19_OneHookPerSession ==
    /\ \A s \in 1..Len(sessions) : HooksIn(sessions[s].handlers) = 1
    /\ \A i \in 1..Len(reqs) :
          /\ HooksIn(reqs[i].handlers) = 1
          /\ reqs[i].hooks <= reqs[i].attempt
          /\ NextHandler(reqs[i]) = "" => reqs[i].hooks = reqs[i].attempt
    /\ Total(AWSRequest, ReqLabels) <= Attempts(1)

\* two sessions were made, one request was sent once through one of them, and
\* the count is 1
C19_Witness ==
    /\ Len(sessions) = 2 /\ Len(reqs) = 1
    /\ reqs[1].attempt = 1 /\ reqs[1].sends = 1 /\ NextHandler(reqs[1]) = ""
    /\ AWSRequest[<<reqs[1].service, reqs[1].operation>>] = 1
    /\ Total(AWSRequest, ReqLabels) = 1

====
